---- MODULE Spec2Model ----
(***************************************************************************)
(* Model of agentic-kg-explorer. The prompt registry                       *)
(* (src/src/optimizer/registry.py): the PromptVersion records kept in the  *)
(* graph store, the per-version prompt files, current.txt, and the         *)
(* registry operations, at the granularity of the individual graph-store   *)
(* statements and file-system calls each operation issues.                 *)
(*                                                                         *)
(* Every run_cypher call is its own auto-commit session                    *)
(* (src/src/graph/client.py:224-228), so one statement is one atomic step  *)
(* and nothing groups two statements.                                      *)
(*                                                                         *)
(* The module also models the query pipeline (src/src/agents: classify,    *)
(* plan, retrieve, web search, synthesize, one node per step, with the     *)
(* web_search entries of the vector store), the provider/model override    *)
(* of POST /query (src/src/api/routes.py, one line per step and thread),   *)
(* and the status of failure patterns (src/src/optimizer/analyzer.py).     *)
(* Further parts: the analyze / approve / test-variants flow of the        *)
(* optimizer routes, and, as functions applied to enumerated inputs,       *)
(* classify_intent, the composite score of the critic, analyze() and       *)
(* _serialize_results.                                                     *)
(* Each part has its own variables and specifications.                     *)
(***************************************************************************)
EXTENDS Integers, Sequences, FiniteSets, TLC

\* ------------------------------------------------------------------ bounds
\* Largest patch number a version may reach (1.0.0 .. 1.0.MaxPatch).
MaxPatch == 1
\* Number of registry calls issued in one behaviour.
MaxCalls == 5

\* ------------------------------------------------------------ input domains
Agents == {"synthesizer", "intent_classifier"}
MainAgent == {"synthesizer"}

SeqProcs == {1}
Procs == {1, 2}

\* Python's None where a prompt text is expected, and a missing file.
NoFile == <<"ENOENT">>

\* Prompt texts, as sequences of characters.  "CR" and "LF" are the carriage
\* return and line feed characters.
Contents == { <<"A", "LF">>, <<"B", "CR", "LF">> }
\* The (content, rationale) pairs handed to create_version.
Drafts == { [content |-> <<"A", "LF">>, rationale |-> "r1"],
            [content |-> <<"B", "CR", "LF">>, rationale |-> "r2"] }
OneDraft == { [content |-> <<"A", "LF">>, rationale |-> "r1"] }
ApprovedBy == {"user"}

\* ------------------------------------------------------------------ values
None == <<>>
NoRec == [absent |-> TRUE]

Versions == { <<1, 0, k>> : k \in 0..MaxPatch }
Ids == Agents \X Versions
MissingId == <<"synthesizer", <<9, 9, 9>>>>
\* The optional parent_version argument: omitted, or the id of version 1.0.1
\* of the agent (a record that may not exist yet, or the one being created).
ParentArgs(agent) == {None, <<agent, <<1, 0, 1>>>>}

\* version_id = f"pv:{agent_name}@{new_version}"
VersionId(agent, version) == <<agent, version>>

\* hashlib.sha256(content.encode()).hexdigest()[:16]: a digest of the content.
\* Distinct contents of the model have distinct digests.
HashContent(content) == <<"sha256_16">> \o content

\* _parse_version: versions are kept as the parsed (major, minor, patch).
ParseVersion(version) ==
    IF Len(version) = 3 THEN version ELSE <<1, 0, 0>>

IncrementVersion(version, bump) ==
    LET v == ParseVersion(version) IN
    IF bump = "major" THEN <<v[1] + 1, 0, 0>>
    ELSE IF bump = "minor" THEN <<v[1], v[2] + 1, 0>>
    ELSE <<v[1], v[2], v[3] + 1>>

\* Path.read_text(encoding="utf-8") opens the file in text mode with
\* newline=None: universal newlines, "\r\n" and a lone "\r" are read as "\n".
RECURSIVE ReadText(_)
ReadText(s) ==
    IF s = <<>> THEN <<>>
    ELSE IF s[1] = "CR"
         THEN IF Len(s) >= 2 /\ s[2] = "LF"
              THEN <<"LF">> \o ReadText(SubSeq(s, 3, Len(s)))
              ELSE <<"LF">> \o ReadText(Tail(s))
         ELSE <<s[1]>> \o ReadText(Tail(s))

\* Path.write_text(content, encoding="utf-8") on a POSIX build: "\n" is
\* written as os.linesep = "\n", every other character unchanged.
WriteText(s) == s

\* ------------------------------------------------------------------- state
VARIABLES
    store,        \* PromptVersion nodes of the graph store, by id
    vfile,        \* {prompts_dir}/{agent}/v{version}.txt, by id
    current,      \* {prompts_dir}/{agent}/current.txt, by agent
    proc,         \* per caller: position in the operation and its locals
    createdWith,  \* content given to the latest create_version of each id
    calls,        \* number of calls issued so far
    result        \* what the call that returned last returned

\* ------------------------------------------------- query pipeline: inputs
\* Largest number of pipeline runs in a behaviour.
MaxRuns == 2

\* Intent tags: the hard-coded default set of the classifier prompt, and the
\* tags the heuristic fallback can return.
DefaultIntents == {"lookup", "path", "comparison", "expansion", "out_of_scope"}
FallbackIntents == {"out_of_scope", "comparison", "aggregation",
                    "coverage_check", "definition", "exploration",
                    "path_trace", "expansion", "lookup"}
Intents == DefaultIntents \cup FallbackIntents

\* Entity lists the classifier can extract (only their length matters to
\* the planner).
EntityLists == { <<>>, <<"ReAct">>, <<"ReAct", "LangChain">> }

\* None of an Optional[str] and of an Optional[list] field of AgentState,
\* and None of the Optional[float] confidence (confidences are hundredths).
NoneStr == "None"
NoneList == <<"None">>
NoneNum == -1

\* Result lists the collaborators can deliver: graph rows, vector hits and
\* web results (a web result is named by its url; an empty url is an entry
\* the web service returned without one).
GraphRows == { <<>>, <<"m:react">> }
\* n_results of _run_vector_search and VectorStore.query.
TopK == 5
\* The k-th VectorSearchResult of a query: the fields of the dataclass.
VectorSearchResult(k) ==
    [source_type |-> "kg_node", source_id |-> k, source_url |-> NoneStr,
     node_id |-> k, node_label |-> "Method", title |-> "t", text |-> "t",
     score |-> 50, collected_at |-> NoneStr, collector |-> NoneStr]
\* What VectorStore.query returns from a non-empty store: 1 to TopK hits.
VectorHits == { [k \in 1..n |-> VectorSearchResult(k)] : n \in 1..TopK }
Urls == {"u1", "u2"}
WebResultLists == { <<>>, <<"u1">>, <<"u2", "u1">>, <<"", "u2">> }

\* What the process environment provides during one run: node embeddings in
\* the vector store, OPENAI_API_KEY (embedding client), TAVILY_API_KEY, and
\* an LLM provider.
Envs == [kg_indexed : BOOLEAN, embedder : BOOLEAN,
         tavily_key : BOOLEAN, provider : BOOLEAN]

UserQuery == "q"

VARIABLES
    ctx,          \* AgentState of the pipeline run
    node,         \* node of the pipeline graph that runs next
    env,          \* environment of the run
    log,          \* collaborators called, collaborators that raised, and
                  \* the hits the vector store returned to the last stage
    chroma,       \* web_search entries of the vector store, by entry id
    runs          \* number of pipeline runs started

pipeVars == <<ctx, node, env, log, chroma, runs>>

\* State handed to graph.invoke by run_agent.
InitialState ==
    [user_query |-> UserQuery, intent |-> NoneStr, entities |-> NoneList,
     search_strategy |-> NoRec, kg_results |-> NoneList,
     cypher_executed |-> NoneList, answer |-> NoneStr,
     sources |-> NoneList, confidence |-> NoneNum,
     vector_results |-> NoneList, web_results |-> NoneList,
     web_query |-> NoneStr, error |-> NoneStr]

EmptyLog == [issued |-> {}, failed |-> {}, hits |-> <<>>]

PipelineIdle ==
    /\ ctx = InitialState
    /\ node = "idle"
    /\ env = [kg_indexed |-> FALSE, embedder |-> FALSE,
              tavily_key |-> FALSE, provider |-> FALSE]
    /\ log = EmptyLog
    /\ chroma = {}
    /\ runs = 0

\* --------------------------------------------------- POST /query: inputs
\* Largest number of /query requests in a behaviour.
MaxQueries == 3

\* Handler threads of the API server.
Requests == {1, 2}

\* llm_provider and llm_model of the process-wide Settings object as built
\* from an environment that sets neither.
DefaultSettings == [llm_provider |-> "anthropic", llm_model |-> NoneStr]

\* The override fields of a request body; "string" is the placeholder the
\* handler ignores.
QueryArgs == { [llm_provider |-> NoneStr, llm_model |-> NoneStr],
               [llm_provider |-> "openai", llm_model |-> NoneStr],
               [llm_provider |-> "gemini", llm_model |-> "gemini-flash"],
               [llm_provider |-> "string", llm_model |-> "string"] }

VARIABLES
    settings,     \* llm_provider, llm_model of the cached Settings object
    req,          \* per handler thread: position in query_agent and locals
    queries       \* number of requests received

queryVars == <<settings, req, queries>>

NoRequest ==
    [pc |-> "idle", args |-> [llm_provider |-> NoneStr, llm_model |-> NoneStr],
     original_provider |-> NoneStr, original_model |-> NoneStr,
     overridden |-> FALSE, seen |-> {}]

QueryIdle ==
    /\ settings = DefaultSettings
    /\ req = [r \in Requests |-> NoRequest]
    /\ queries = 0

\* ---------------------------------------------- failure patterns: inputs
\* Number of calendar months a behaviour spans.
MaxMonth == 2

PatternAgents == {"synthesizer"}
\* Criterion ids, as their parts between colons.
CriterionIds == { <<"ec", "source-citation">>, <<"ec", "completeness">> }
Months == 1..MaxMonth

\* Status values of a FailurePattern, in their order.
Statuses == <<"detected", "reviewing", "addressing", "resolved">>

\* Position of a status in the order; a pattern that is not stored is 0.
Rank(status) ==
    IF \E k \in 1..Len(Statuses) : Statuses[k] = status
    THEN CHOOSE k \in 1..Len(Statuses) : Statuses[k] = status
    ELSE 0

\* f"fp:{agent_name}:{criterion_id.split(':')[-1]}:{date_str}"
PatternId(agent_name, criterion_id, date_str) ==
    <<"fp", agent_name, criterion_id[Len(criterion_id)], date_str>>

PatternIds ==
    { PatternId(a, c, m) : a \in PatternAgents, c \in CriterionIds,
                            m \in Months }

VARIABLES
    patterns,     \* status of the FailurePattern node with each id
    month         \* current calendar month

patternVars == <<patterns, month>>

PatternsIdle ==
    /\ patterns = [id \in PatternIds |-> "absent"]
    /\ month = 1

\* ------------------------------------------ optimizer HTTP flow: inputs
\* Largest number of entries in the JSON list the LLM answers with.
MaxGenerated == 4
\* generate_variants(pattern, num_variants=3) in both routes.
NumVariants == 3

\* The agent and criterion of the failure pattern the flow is about.
FlowAgent == "synthesizer"
FlowBucket == <<"synthesizer", <<"ec", "completeness">>>>
\* SYNTHESIS_PROMPT, the module constant the synthesizer formats its prompt
\* from.
SYNTHESIS_PROMPT == <<"S", "LF">>
\* The JSON lists the LLM answers with: answer a has up to MaxGenerated
\* entries, and the "prompt" text of its i-th entry is a followed by i
\* lines.
Answers == {"A", "B"}
VariantText(a, i) == <<a>> \o [j \in 1..i |-> "LF"]
LLMOutputs ==
    { [i \in 1..n |-> VariantText(a, i)] :
      n \in 0..MaxGenerated, a \in Answers }
\* root_cause_hypotheses: those stored with the pattern, and an edited list.
Hypotheses == {"stored", "edited"}
\* performance_delta of a variant: not better, or better than the baseline.
Deltas == <<1, 0>>
\* Number of test queries config/test_queries.yaml holds for the agent.
TestQueryCounts == {0, 1}
BaselineId == <<"baseline">>

VARIABLES
    flow,         \* position in the HTTP optimizer flow
    gate1,        \* response of POST /optimizer/patterns/{id}/approve
    variant_ids,  \* variant_ids of the POST /optimizer/test request
    test          \* what POST /optimizer/test generated, ran and returned

flowVars == <<flow, gate1, variant_ids, test>>

NoGate1 == [hypotheses |-> "none", variants |-> <<>>]
NoTest == [hypotheses |-> "none", variants |-> <<>>, suite |-> <<>>,
           results |-> <<>>]

FlowIdle ==
    /\ flow = "idle"
    /\ gate1 = NoGate1
    /\ variant_ids = {}
    /\ test = NoTest

\* ------------------------------------------------ classify_intent: inputs
\* default_intents of _build_intent_list, in their order.
DefaultIntentList ==
    <<"lookup", "path", "comparison", "expansion", "out_of_scope">>
\* The intent names of config/intents.yaml, in file order: the file is
\* missing, or it lists the intents of the planner, or a short custom list.
IntentConfigs ==
    { NoneList,
      <<"lookup", "exploration", "path_trace", "comparison", "aggregation",
        "coverage_check", "definition", "expansion", "out_of_scope">>,
      <<"path", "path_trace", "expansion">> }
\* What get_provider() does: returns None, returns a provider whose generate
\* answers, returns one whose generate raises, or raises itself (the import
\* of the provider module or the constructor of its class fails).
ProviderStates == {"none", "ok", "generate_raises", "construct_raises"}
\* The text after "INTENT:" in the LLM answer (NoneStr: no such line) and
\* the names on its ENTITIES line.
IntentTags ==
    {NoneStr, "lookup", "LOOKUP", "aggregation", "path_trace", "banana"}
LLMContents == [tag : IntentTags, entities : {<<>>, <<"ReAct">>}]
\* Keywords of the heuristic fallback a query may contain, one per group.
QueryKeywords ==
    {"weather", "agent", "vs", "how many", "missing", "schema", "implement",
     "connect", "latest"}
\* Queries: the keywords they contain (none, one, or an out-of-scope keyword
\* with an AI keyword) and the catalog names they mention.
ClassifierQueries ==
    [keywords : {{}} \cup { {k} : k \in QueryKeywords }
                \cup {{"weather", "agent"}},
     mentions : {<<>>, <<"LangChain">>}]

VARIABLES
    cin,          \* inputs of the latest classify_intent call
    cout          \* what that call left: intent and entities, or raised

classVars == <<cin, cout>>

ClassifierIdle ==
    /\ cin = [config |-> NoneList, provider |-> "none",
              content |-> [tag |-> NoneStr, entities |-> <<>>],
              query |-> [keywords |-> {}, mentions |-> <<>>]]
    /\ cout = [state |-> "idle", intent |-> NoneStr, entities |-> NoneList]

\* -------------------------------------------- composite score: inputs
\* The criteria of one agent, as load_criteria lists them.
Criteria == {"c1", "c2"}
\* The weights a criteria file may give (load_criteria takes c["weight"] as
\* it is) and the scores of a criterion, in tenths.
Weights == {-1, 0, 1, 2}
Scores == {0, 5, 10}

VARIABLES
    scored        \* two evaluations of one agent and their composites

scoreVars == <<scored>>

ScorerIdle == scored = [state |-> "idle"]

\* ------------------------------------------------ analyze(): inputs
\* Number of Evaluation records in the store.
MaxEvals == 3
\* Scores, in hundredths, and the failure thresholds and min_samples an
\* analyzer is constructed with.
EvalScores == {30, 60}
Thresholds == {60}
MinSamples == {2}
\* Evaluation records: the agent, the score of every criterion and the
\* composite score.
EvalRecords ==
    [agent_name : PatternAgents, scores : [CriterionIds -> EvalScores],
     composite_score : EvalScores]
EvalStores == UNION { [1..n -> EvalRecords] : n \in 0..MaxEvals }

VARIABLES
    analysis      \* the latest analyze() call: its inputs and what it returned

analysisVars == <<analysis>>

AnalyzerIdle == analysis = [state |-> "idle"]

\* ------------------------------------------- _serialize_results: inputs
\* Nesting depth of the lists and maps a column holds.
MaxDepth == 2

\* A value is a record of its kind and of the values it holds: "prim" (a
\* string, number, boolean or None), the driver's Node and Relationship
\* (holding their property values), its Path and DateTime, and Python's
\* list and dict (holding their elements and values).
Val(kind, items) == [kind |-> kind, items |-> items]
Prim == Val("prim", <<>>)
NativeKinds == {"Node", "Relationship", "Path", "DateTime"}
PropertyValues == { <<Prim>>, <<Val("DateTime", <<>>)>> }
FlatValues ==
    {Prim, Val("Path", <<>>), Val("DateTime", <<>>)}
    \cup { Val(k, props) : k \in {"Node", "Relationship"},
                           props \in PropertyValues }

\* The values nested at most `depth` deep in one-element lists and maps.
RECURSIVE NestedValues(_)
NestedValues(depth) ==
    IF depth = 0 THEN FlatValues
    ELSE NestedValues(depth - 1)
         \cup { Val(k, <<v>>) : k \in {"list", "dict"},
                                v \in NestedValues(depth - 1) }

\* Result rows: one or two records of one column.
RawResults ==
    UNION { [1..n -> [col : NestedValues(MaxDepth)]] : n \in 1..2 }

VARIABLES
    serial        \* the latest _serialize_results call: argument and result

serialVars == <<serial>>

SerializerIdle == serial = [state |-> "idle"]

\* ------------------------------------------------------------- all state
regVars == <<store, vfile, current, proc, createdWith, calls, result>>

vars ==
    <<regVars, pipeVars, queryVars, patternVars, flowVars, classVars,
      scoreVars, analysisVars, serialVars>>

\* What a step of one subsystem leaves alone.
outsideRegistry ==
    <<pipeVars, queryVars, patternVars, flowVars, classVars, scoreVars,
      analysisVars, serialVars>>
outsidePipeline ==
    <<regVars, queryVars, patternVars, flowVars, classVars, scoreVars,
      analysisVars, serialVars>>
outsideQuery ==
    <<regVars, pipeVars, patternVars, flowVars, classVars, scoreVars,
      analysisVars, serialVars>>
outsidePatterns ==
    <<regVars, pipeVars, queryVars, flowVars, classVars, scoreVars,
      analysisVars, serialVars>>
outsideFlow ==
    <<regVars, pipeVars, queryVars, classVars, scoreVars, analysisVars,
      serialVars>>
outsideClassifier ==
    <<regVars, pipeVars, queryVars, patternVars, flowVars, scoreVars,
      analysisVars, serialVars>>
outsideScorer ==
    <<regVars, pipeVars, queryVars, patternVars, flowVars, classVars,
      analysisVars, serialVars>>
outsideAnalyzer ==
    <<regVars, pipeVars, queryVars, flowVars, classVars, scoreVars,
      serialVars>>
outsideSerializer ==
    <<regVars, pipeVars, queryVars, patternVars, flowVars, classVars,
      scoreVars, analysisVars>>

Idle == [pc |-> "idle", op |-> "none", agent |-> "none", vid |-> None,
         by |-> "none", content |-> NoFile, rationale |-> "none",
         parent |-> None, version |-> None, aname |-> "none",
         had_version |-> FALSE]

Init ==
    /\ store = [id \in Ids |-> NoRec]
    /\ vfile = [id \in Ids |-> NoFile]
    /\ current = [a \in Agents |-> NoFile]
    /\ proc = [p \in Procs |-> Idle]
    /\ createdWith = [id \in Ids |-> NoFile]
    /\ calls = 0
    /\ result = "none"
    /\ PipelineIdle
    /\ QueryIdle
    /\ PatternsIdle
    /\ FlowIdle
    /\ ClassifierIdle
    /\ ScorerIdle
    /\ AnalyzerIdle
    /\ SerializerIdle

\* ----------------------------------------------------------- store queries
Exists(id) == id \in Ids /\ store[id] # NoRec

\* MATCH (pv:PromptVersion {agent_name: $agent_name, is_active: true})
ActiveOf(agent) ==
    { id \in Ids : store[id] # NoRec /\ store[id].agent_name = agent
                   /\ store[id].is_active }

\* get_current_version: result[0] of the match, None when nothing matches.
\* The query has no ORDER BY: with several matches any of them can be first.
CurrentChoices(agent) ==
    IF ActiveOf(agent) = {} THEN {None} ELSE ActiveOf(agent)

\* ----------------------------------------------------------- store updates
\* MERGE (pv:PromptVersion {id: $id}) SET ... of create_version.  approved_by
\* and approved_at are not in the SET list: a merged node keeps them.
Merged(st, id, agent, version, content, rationale, parent) ==
    [st EXCEPT ![id] =
        [agent_name |-> agent,
         version |-> version,
         prompt_content |-> content,
         prompt_hash |-> HashContent(content),
         is_active |-> FALSE,
         user_approved |-> FALSE,
         parent_version |-> parent,
         rationale |-> rationale,
         approved_by |-> IF st[id] = NoRec THEN "null" ELSE st[id].approved_by]]

\* Variant of Deactivated that leaves the active version active.
Deactivated_Skip(st, agent) == st

\* MATCH (pv {agent_name, is_active: true}) SET pv.is_active = false
Deactivated(st, agent) ==
    [id \in Ids |->
        IF st[id] # NoRec /\ st[id].agent_name = agent /\ st[id].is_active
        THEN [st[id] EXCEPT !.is_active = FALSE]
        ELSE st[id]]

\* Variant of Activated that sets is_active only.
Activated_NoApproval(st, id, by) ==
    IF id \in Ids /\ st[id] # NoRec
    THEN [st EXCEPT ![id] = [@ EXCEPT !.is_active = TRUE]]
    ELSE st

\* MATCH (pv {id}) SET pv.is_active = true, pv.user_approved = true,
\*                     pv.approved_by = $approved_by
Activated(st, id, by) ==
    IF id \in Ids /\ st[id] # NoRec
    THEN [st EXCEPT ![id] = [@ EXCEPT !.is_active = TRUE,
                                      !.user_approved = TRUE,
                                      !.approved_by = by]]
    ELSE st

\* -------------------------------------------------------------- bookkeeping
\* The call returns `value` (or raises) and the caller is free for its next
\* call.
Return(p, value) ==
    /\ proc' = [proc EXCEPT ![p] = Idle]
    /\ result' = value

Goto(p, pc) ==
    /\ proc' = [proc EXCEPT ![p].pc = pc]
    /\ UNCHANGED result

\* ------------------------------------------------------------ create_version
CallCreateVersion(p, agent, content, rationale, parent) ==
    /\ proc[p].pc = "idle"
    /\ \A id \in ActiveOf(agent) : store[id].version[3] < MaxPatch
    /\ proc' = [proc EXCEPT ![p] =
                  [Idle EXCEPT !.pc = "cv_current", !.op = "create_version",
                               !.agent = agent, !.content = content,
                               !.rationale = rationale, !.parent = parent]]
    /\ UNCHANGED <<store, vfile, current, createdWith>>

\* current = self.get_current_version(agent_name); new_version; parent_version
CreateGetCurrent(p) ==
    /\ proc[p].pc = "cv_current"
    /\ \E cur \in CurrentChoices(proc[p].agent) :
         LET newv == IF cur # None
                     THEN IncrementVersion(store[cur].version, "patch")
                     ELSE <<1, 0, 0>>
             par == IF cur # None /\ proc[p].parent = None
                    THEN cur ELSE proc[p].parent
         IN /\ newv[3] <= MaxPatch
            /\ proc' = [proc EXCEPT ![p].pc = "cv_file",
                                    ![p].version = newv,
                                    ![p].vid = VersionId(proc[p].agent, newv),
                                    ![p].parent = par]
    /\ UNCHANGED <<store, vfile, current, createdWith, result>>

\* prompt_path.write_text(content)
CreateWriteFile(p) ==
    /\ proc[p].pc = "cv_file"
    /\ vfile' = [vfile EXCEPT ![proc[p].vid] = WriteText(proc[p].content)]
    /\ Goto(p, "cv_merge")
    /\ UNCHANGED <<store, current, createdWith>>

\* the MERGE statement; create_version then returns pv, and
\* initialize_from_code goes on to activate pv.id.  The ADDRESSES link to a
\* failure pattern touches no PromptVersion property.
CreateMerge(p) ==
    /\ proc[p].pc = "cv_merge"
    /\ store' = Merged(store, proc[p].vid, proc[p].agent, proc[p].version,
                       proc[p].content, proc[p].rationale, proc[p].parent)
    /\ createdWith' = [createdWith EXCEPT ![proc[p].vid] = proc[p].content]
    /\ IF proc[p].op = "initialize_from_code"
       THEN /\ proc' = [proc EXCEPT ![p].pc = "av_lookup",
                                    ![p].by = "initialization"]
            /\ UNCHANGED result
       ELSE Return(p, "pv")
    /\ UNCHANGED <<vfile, current>>

\* ---------------------------------------------------------- activate_version
CallActivateVersion(p, id, by) ==
    /\ proc[p].pc = "idle"
    /\ proc' = [proc EXCEPT ![p] =
                  [Idle EXCEPT !.pc = "av_lookup", !.op = "activate_version",
                               !.vid = id, !.by = by]]
    /\ UNCHANGED <<store, vfile, current, createdWith>>

\* Variant of ActivateLookup that deactivates the agent named in the id before
\* it finds out that the id matches no version.
ActivateLookup_DeactivateFirst(p) ==
    /\ proc[p].pc = "av_lookup"
    /\ IF Exists(proc[p].vid)
       THEN /\ proc' = [proc EXCEPT ![p].pc = "av_deactivate",
                                    ![p].aname = store[proc[p].vid].agent_name]
            /\ UNCHANGED <<store, result>>
       ELSE /\ store' = Deactivated(store, proc[p].vid[1])
            /\ Return(p, "False")
    /\ UNCHANGED <<vfile, current, createdWith>>

\* MATCH (pv {id}) RETURN pv.agent_name; "if not result: return False"
ActivateLookup(p) ==
    /\ proc[p].pc = "av_lookup"
    /\ IF Exists(proc[p].vid)
       THEN /\ proc' = [proc EXCEPT ![p].pc = "av_deactivate",
                                    ![p].aname = store[proc[p].vid].agent_name]
            /\ UNCHANGED result
       ELSE Return(p, "False")
    /\ UNCHANGED <<store, vfile, current, createdWith>>

\* "Deactivate current active version"
ActivateDeactivate(p) ==
    /\ proc[p].pc = "av_deactivate"
    /\ store' = Deactivated(store, proc[p].aname)
    /\ Goto(p, "av_activate")
    /\ UNCHANGED <<vfile, current, createdWith>>

\* "Activate new version"
ActivateTarget(p) ==
    /\ proc[p].pc = "av_activate"
    /\ store' = Activated(store, proc[p].vid, proc[p].by)
    /\ Goto(p, "ucp_read")
    /\ UNCHANGED <<vfile, current, createdWith>>

\* _update_current_prompt: MATCH (pv {id}) RETURN pv.prompt_content
UpdateCurrentRead(p) ==
    /\ proc[p].pc = "ucp_read"
    /\ IF Exists(proc[p].vid)
       THEN /\ proc' = [proc EXCEPT ![p].pc = "ucp_open",
                          ![p].content = store[proc[p].vid].prompt_content]
            /\ UNCHANGED result
       ELSE Return(p, "True")
    /\ UNCHANGED <<store, vfile, current, createdWith>>

\* current_path.write_text(content): open(current_path, "w") truncates ...
UpdateCurrentOpen(p) ==
    /\ proc[p].pc = "ucp_open"
    /\ current' = [current EXCEPT ![proc[p].aname] = <<>>]
    /\ Goto(p, "ucp_write")
    /\ UNCHANGED <<store, vfile, createdWith>>

\* ... then the text is written and the file closed; activate_version
\* returns True.
UpdateCurrentWrite(p) ==
    /\ proc[p].pc = "ucp_write"
    /\ current' = [current EXCEPT ![proc[p].aname] = WriteText(proc[p].content)]
    /\ Return(p, "True")
    /\ UNCHANGED <<store, vfile, createdWith>>

\* ------------------------------------------------------------------ rollback
CallRollback(p, agent, to_version) ==
    /\ proc[p].pc = "idle"
    /\ proc' = [proc EXCEPT ![p] =
                  [Idle EXCEPT !.pc = "rb_entry", !.op = "rollback",
                               !.agent = agent, !.vid = to_version]]
    /\ UNCHANGED <<store, vfile, current, createdWith>>

\* "if to_version: return self.activate_version(to_version, 'rollback')";
\* otherwise the parent of get_current_version(agent_name), False when there
\* is no current version or it has no parent.
RollbackEntry(p) ==
    /\ proc[p].pc = "rb_entry"
    /\ IF proc[p].vid # None
       THEN /\ proc' = [proc EXCEPT ![p].pc = "av_lookup",
                                    ![p].by = "rollback"]
            /\ UNCHANGED result
       ELSE \E cur \in CurrentChoices(proc[p].agent) :
              IF cur = None \/ store[cur].parent_version = None
              THEN Return(p, "False")
              ELSE /\ proc' = [proc EXCEPT ![p].pc = "av_lookup",
                                 ![p].by = "rollback",
                                 ![p].vid = store[cur].parent_version]
                   /\ UNCHANGED result
    /\ UNCHANGED <<store, vfile, current, createdWith>>

\* --------------------------------------------------------------- load_prompt
\* The possible return values of load_prompt(agent) in the current state:
\* current.txt if it exists, else the content of get_current_version, else
\* None.
LoadPrompt(agent) ==
    IF current[agent] # NoFile
    THEN {ReadText(current[agent])}
    ELSE { IF cur = None THEN NoFile ELSE store[cur].prompt_content :
           cur \in CurrentChoices(agent) }

\* ------------------------------------------------------ initialize_from_code
CallInitializeFromCode(p, agent, content) ==
    /\ proc[p].pc = "idle"
    /\ proc' = [proc EXCEPT ![p] =
                  [Idle EXCEPT !.pc = "ifc_current",
                     !.op = "initialize_from_code",
                     !.agent = agent, !.content = content,
                     !.rationale = "Initial version extracted from code",
                     !.had_version =
                        \E id \in Ids : store[id] # NoRec
                                        /\ store[id].agent_name = agent]]
    /\ UNCHANGED <<store, vfile, current, createdWith>>

\* "current = self.get_current_version(agent_name); if current: return current"
InitGetCurrent(p) ==
    /\ proc[p].pc = "ifc_current"
    /\ \E cur \in CurrentChoices(proc[p].agent) :
         IF cur # None
         THEN Return(p, "pv")
         ELSE Goto(p, "cv_current")
    /\ UNCHANGED <<store, vfile, current, createdWith>>

\* ------------------------------------------------------------------ failures
\* A graph-store statement or a file-system call raises: the operation stops
\* where it is, and what it has written so far stays written.  A call whose
\* first statement raises has done nothing and is not told apart from a call
\* that was never made.
Raise(p) ==
    /\ proc[p].pc \notin {"idle", "cv_current", "av_lookup", "rb_entry",
                          "ifc_current"}
    /\ Return(p, "raised")
    /\ UNCHANGED <<store, vfile, current, createdWith>>

\* ---------------------------------------------- query pipeline: operators
\* bool(x) of an Optional[list] value.
Truthy(list) == list # NoneList /\ list # <<>>

\* `x or []` of an Optional[list] value.
OrEmpty(list) == IF list = NoneList THEN <<>> ELSE list

\* VectorStore.is_available: the collection holds at least one entry.
IsAvailable == env.kg_indexed \/ chroma # {}

\* Outcomes of a collaborator call that raises.
EmbedRaises == <<[raises |-> "embedding call"]>>
QueryRaises == <<[raises |-> "vector-store query"]>>
GraphRaises == <<"graph query raises">>
WebRaises == <<"web search raises">>

\* A strategy dict; a key the code leaves out is NoneStr.
Strategy(retrieval_type, cypher_template, error) ==
    [retrieval_type |-> retrieval_type, cypher_template |-> cypher_template,
     error |-> error, vector_query |-> NoneStr]

PlanLookup(entities) ==
    IF ~Truthy(entities)
    THEN Strategy("graph_only", NoneStr, "No entities found for lookup")
    ELSE Strategy("graph_only", "lookup", NoneStr)

PlanPath(entities) ==
    IF ~Truthy(entities)
    THEN Strategy("graph_only", NoneStr, "No entities found for path query")
    ELSE Strategy("graph_only", "path", NoneStr)

PlanComparison(entities) ==
    IF Len(entities) < 2
    THEN Strategy("graph_only", NoneStr,
                  "Comparison requires at least 2 entities")
    ELSE Strategy("graph_only", "comparison", NoneStr)

\* _maybe_add_vector_search; a vector store that cannot be opened is
\* handled as one that is not available.
MaybeAddVectorSearch(strategy, intent, entities, user_query) ==
    LET vector_query == IF user_query # "" THEN user_query ELSE "entities"
    IN  IF ~IsAvailable THEN strategy
        ELSE IF intent = "expansion"
        THEN [strategy EXCEPT !.retrieval_type = "vector_first",
                              !.vector_query = vector_query]
        ELSE IF \/ strategy.retrieval_type = "none"
                \/ /\ strategy.retrieval_type = "graph_only"
                   /\ strategy.cypher_template = NoneStr
        THEN [strategy EXCEPT !.retrieval_type = "vector_first",
                              !.vector_query = vector_query]
        ELSE IF intent \in {"lookup", "path"}
                /\ strategy.cypher_template # NoneStr
        THEN [strategy EXCEPT !.retrieval_type = "hybrid",
                              !.vector_query = vector_query]
        ELSE strategy

\* The strategy plan_search stores for an intent and entity list.
PlannedStrategy(intent, entities, user_query) ==
    MaybeAddVectorSearch(
        CASE intent = "lookup" -> PlanLookup(entities)
          [] intent = "path" -> PlanPath(entities)
          [] intent = "comparison" -> PlanComparison(entities)
          [] intent = "expansion" -> Strategy("none", NoneStr, NoneStr)
          [] OTHER -> Strategy("none", NoneStr, "Unknown intent"),
        intent, entities, user_query)

\* The attributes _run_vector_search reads from every hit r: r.node_id,
\* r.node_label, r.text, r.field, r.score.
HitDictKeys == {"node_id", "node_label", "text", "field", "score"}
\* Whether the object has every attribute of `names`; reading a missing one
\* raises AttributeError.
HasAttrs(r, names) == names \subseteq DOMAIN r
HitDict(r) == [k \in HitDictKeys |-> r[k]]

\* _run_vector_search: the hits, the collaborators called, those that raised.
RunVectorSearch(query_text, out) ==
    IF query_text \in {"", NoneStr} \/ ~env.embedder \/ ~IsAvailable
    THEN [results |-> <<>>, issued |-> {}, failed |-> {}]
    ELSE IF out = EmbedRaises
    THEN [results |-> <<>>, issued |-> {"embed"}, failed |-> {"embed"}]
    ELSE IF out = QueryRaises
    THEN [results |-> <<>>, issued |-> {"embed", "vector"},
          failed |-> {"vector"}]
    ELSE IF \E i \in DOMAIN out : ~HasAttrs(out[i], HitDictKeys)
    THEN [results |-> <<>>, issued |-> {"embed", "vector"},
          failed |-> {"hit_dict"}]
    ELSE [results |-> [i \in DOMAIN out |-> HitDict(out[i])],
          issued |-> {"embed", "vector"}, failed |-> {}]

\* _enrich_from_neo4j for a non-empty hit list.
EnrichFromNeo4j(vector_results, out) ==
    IF out = GraphRaises
    THEN [results |-> <<>>, issued |-> {"graph"}, failed |-> {"enrich"}]
    ELSE [results |-> out, issued |-> {"graph"}, failed |-> {}]

\* retrieve_from_graph on context c, given what the vector search (vs) and
\* the graph (gout) deliver if they are called.
Retrieved(c, vout, gout) ==
    LET strategy == c.search_strategy
        Quiet(cc) == [ctx |-> cc, issued |-> {}, failed |-> {}]
    IN
    IF strategy = NoRec
    THEN Quiet([c EXCEPT !.error = "No search strategy available"])
    ELSE IF strategy.retrieval_type = "none"
    THEN Quiet([c EXCEPT !.kg_results = <<>>, !.cypher_executed = <<>>])
    ELSE
      LET vector == strategy.retrieval_type \in {"vector_first", "hybrid"}
          vs == IF vector
                THEN RunVectorSearch(
                        IF strategy.vector_query = NoneStr THEN ""
                        ELSE strategy.vector_query, vout)
                ELSE [results |-> <<>>, issued |-> {}, failed |-> {}]
          c1 == IF vector THEN [c EXCEPT !.vector_results = vs.results]
                ELSE c
      IN
      IF strategy.retrieval_type = "vector_first"
         /\ strategy.cypher_template = NoneStr
      THEN IF Truthy(c1.vector_results)
           THEN LET en == EnrichFromNeo4j(c1.vector_results, gout)
                IN  [ctx |-> [c1 EXCEPT
                                !.kg_results = en.results,
                                !.cypher_executed = <<"(vector enrichment)">>],
                     issued |-> vs.issued \cup en.issued,
                     failed |-> vs.failed \cup en.failed]
           ELSE [ctx |-> [c1 EXCEPT !.kg_results = <<>>,
                                    !.cypher_executed = <<>>],
                 issued |-> vs.issued, failed |-> vs.failed]
      ELSE IF strategy.cypher_template = NoneStr
      THEN [ctx |-> [c1 EXCEPT
                       !.error = IF strategy.error # NoneStr
                                 THEN strategy.error
                                 ELSE "No Cypher template available",
                       !.kg_results = <<>>, !.cypher_executed = <<>>],
            issued |-> vs.issued, failed |-> vs.failed]
      ELSE IF gout = GraphRaises
      THEN [ctx |-> [c1 EXCEPT !.error = "Graph retrieval failed",
                               !.kg_results = <<>>,
                               !.cypher_executed = <<>>],
            issued |-> vs.issued \cup {"graph"},
            failed |-> vs.failed \cup {"graph"}]
      ELSE [ctx |-> [c1 EXCEPT
                       !.kg_results = gout,
                       !.cypher_executed = <<strategy.cypher_template>>],
            issued |-> vs.issued \cup {"graph"}, failed |-> vs.failed]

\* A conditional edge that always takes the web_search branch.
ShouldWebSearch_Always(c) == "web_search"

\* The conditional edge after retrieve_from_graph.
ShouldWebSearch(c) ==
    LET has_results == Truthy(c.kg_results) \/ Truthy(c.vector_results)
    IN  IF c.intent = "expansion" \/ ~has_results
        THEN "web_search" ELSE "synthesize_answer"

\* md5(url)[:12], and the id of the entry for the result at index i.
UrlHash(url) == <<"md5_12", url>>
EntryId(url, i) == <<"web", UrlHash(url), i>>

\* The entries _persist_web_results builds: results without a url are
\* skipped, i is the zero-based index in the result list.
PersistEntries(results) ==
    { [id |-> EntryId(results[k], k - 1), source_url |-> results[k]] :
        k \in {j \in 1..Len(results) : results[j] # ""} }

\* collection.upsert: an entry with the id of an existing one replaces it.
Upsert(coll, entries) ==
    {e \in coll : \A n \in entries : n.id # e.id} \cup entries

\* _persist_web_results: the collection afterwards and the calls made.
PersistWebResults(results, embedded) ==
    IF results = <<>> \/ ~env.embedder \/ PersistEntries(results) = {}
    THEN [chroma |-> chroma, issued |-> {}, failed |-> {}]
    ELSE IF ~embedded
    THEN [chroma |-> chroma, issued |-> {"embed"}, failed |-> {"embed"}]
    ELSE [chroma |-> Upsert(chroma, PersistEntries(results)),
          issued |-> {"embed", "upsert"}, failed |-> {}]

\* ------------------------------------------------ synthesizer: confidence
\* Scores are hundredths. A score that depends on the text of the results
\* is any value such results can give.
Min(a, b) == IF a < b THEN a ELSE b

CalcEntityMatchScore(entities, kg_results, vector_results) ==
    IF ~Truthy(entities) THEN {50}
    ELSE IF ~Truthy(kg_results) /\ ~Truthy(vector_results) THEN {0}
    ELSE { Min((50 * halves) \div Len(entities), 100) :
             halves \in 0..(2 * Len(entities)) }

CalcIntentFulfillmentScore(intent, kg_results, vector_results, web_results) ==
    LET kg_count == Len(OrEmpty(kg_results))
        vector_count == Len(OrEmpty(vector_results))
        web_count == Len(OrEmpty(web_results))
    IN  CASE intent = "lookup" ->
               IF kg_count >= 1 THEN {100}
               ELSE IF vector_count >= 1 THEN {80}
               ELSE IF web_count >= 1 THEN {50} ELSE {0}
          [] intent = "path" ->
               IF kg_count >= 2 THEN {100}
               ELSE IF kg_count >= 1 THEN {70}
               ELSE IF vector_count >= 1 THEN {50} ELSE {0}
          [] intent = "comparison" ->
               IF kg_count = 0 THEN {0}
               ELSE {100, 0} \cup
                    (IF vector_count > 0 \/ web_count > 0 THEN {60} ELSE {40})
          [] intent = "expansion" ->
               IF web_count >= 1 THEN {90}
               ELSE IF kg_count >= 1 \/ vector_count >= 1 THEN {70} ELSE {0}
          [] intent = "out_of_scope" -> {0}
          [] OTHER -> {50}

CalcCompletenessScore(kg_results) ==
    IF ~Truthy(kg_results) THEN {50} ELSE {0, 50, 100}

CalcVectorSimilarityScore(vector_results) ==
    IF ~Truthy(vector_results) THEN {50} ELSE {25, 50, 100}

\* round(total, 2) of a total given in ten-thousandths: a tie is rounded
\* either way, depending on the float that represents it.
Round2(total) ==
    IF total % 100 = 50 THEN {total \div 100, total \div 100 + 1}
    ELSE {(total + 50) \div 100}

\* Variant: every dimension weighted 0.3 (the weights then add up to 1.2).
CalculateConfidence_Unweighted(results, intent, vector_results, web_results, entities) ==
    IF ~Truthy(results) /\ ~Truthy(vector_results) /\ ~Truthy(web_results)
    THEN {0}
    ELSE UNION {
           Round2(30 * e + 30 * i + 30 * c + 30 * v) :
             <<e, i, c, v>> \in
               CalcEntityMatchScore(OrEmpty(entities), results, vector_results)
               \X CalcIntentFulfillmentScore(intent, results, vector_results,
                                             web_results)
               \X CalcCompletenessScore(results)
               \X CalcVectorSimilarityScore(vector_results) }

CalculateConfidence(results, intent, vector_results, web_results, entities) ==
    IF ~Truthy(results) /\ ~Truthy(vector_results) /\ ~Truthy(web_results)
    THEN {0}
    ELSE UNION {
           Round2(30 * e + 30 * i + 20 * c + 20 * v) :
             <<e, i, c, v>> \in
               CalcEntityMatchScore(OrEmpty(entities), results, vector_results)
               \X CalcIntentFulfillmentScore(intent, results, vector_results,
                                             web_results)
               \X CalcCompletenessScore(results)
               \X CalcVectorSimilarityScore(vector_results) }

\* ---------------------------------------------------- synthesizer: answers
DeflectionAnswer == "I'm sorry, but this question is outside my area of expertise."
NotFoundAnswer == "I couldn't find information about that in the knowledge graph or web search."
ErrorEcho(error) == "I encountered an error: " \o error
LLMAnswer == "generated answer"

SimpleFormatResults(results) ==
    IF ~Truthy(results) THEN "No results found in the knowledge graph."
    ELSE "Here's what I found:"

\* _extract_sources: one source per distinct node id, in order of appearance.
RECURSIVE ExtractSources(_)
ExtractSources(results) ==
    IF results = <<>> THEN <<>>
    ELSE LET n == Len(results)
             before == ExtractSources(SubSeq(results, 1, n - 1))
         IN  IF \E k \in 1..(n - 1) : results[k] = results[n] THEN before
             ELSE Append(before, [type |-> "Node", id |-> results[n]])

\* _extract_web_sources: one source per result that has a url.
RECURSIVE ExtractWebSources(_)
ExtractWebSources(web_results) ==
    IF web_results = <<>> THEN <<>>
    ELSE LET n == Len(web_results)
             before == ExtractWebSources(SubSeq(web_results, 1, n - 1))
         IN  IF web_results[n] = "" THEN before
             ELSE Append(before, [type |-> "Web", id |-> web_results[n]])

\* The result of synthesize_answer once it has set answer, sources and
\* confidence: the context, the calls made, and that it did not raise.
Answered(c, answer, sources, confidence, issued, failed) ==
    [ctx |-> [c EXCEPT !.answer = answer, !.sources = sources,
                       !.confidence = confidence],
     issued |-> issued, failed |-> failed, raises |-> FALSE]

\* A synthesizer that answers not-found whether or not an error is set.
NoEvidenceAnswer_IgnoreError(c) ==
    Answered(c, NotFoundAnswer, <<>>, 10, {}, {})

\* The two early returns of synthesize_answer when no list has results.
NoEvidenceAnswer(c) ==
    IF c.error # NoneStr
    THEN Answered(c, ErrorEcho(c.error), <<>>, 0, {}, {})
    ELSE Answered(c, NotFoundAnswer, <<>>, 10, {}, {})

\* synthesize_answer on context c: generated says whether generate returns,
\* confidence is the value _calculate_confidence gives.
Synthesized(c, generated, confidence) ==
    LET kg_results == c.kg_results
        vector_results == OrEmpty(c.vector_results)
        web_results == OrEmpty(c.web_results)
        has_any_results == \/ Truthy(kg_results) \/ Truthy(vector_results)
                           \/ Truthy(web_results)
    IN
    IF c.intent = "out_of_scope"
    THEN Answered(c, DeflectionAnswer, <<>>, 0, {}, {})
    ELSE IF ~has_any_results
    THEN NoEvidenceAnswer(c)
    ELSE IF kg_results = NoneList
    THEN [ctx |-> c, issued |-> {}, failed |-> {}, raises |-> TRUE]
    ELSE IF ~env.provider
    THEN Answered(c, SimpleFormatResults(kg_results),
                  ExtractSources(kg_results), 50, {}, {})
    ELSE IF generated
    THEN Answered(c, LLMAnswer,
                  ExtractSources(kg_results)
                     \o ExtractWebSources(web_results),
                  confidence, {"llm_synthesize"}, {})
    ELSE Answered(c, SimpleFormatResults(kg_results),
                  ExtractSources(kg_results)
                     \o ExtractWebSources(web_results),
                  50, {"llm_synthesize"}, {"llm_synthesize"})

\* ------------------------------------------------ query pipeline: actions
\* The log after a stage: the calls of the run so far, and the hits the
\* vector store returned to this stage (none unless the stage records them).
Logged(issued, failed) ==
    [issued |-> log.issued \cup issued, failed |-> log.failed \cup failed,
     hits |-> <<>>]

\* run_agent: a new run starts from the initial state.
RunAgent ==
    /\ node \in {"idle", "END", "raised"}
    /\ runs < MaxRuns
    /\ runs' = runs + 1
    /\ env' \in Envs
    /\ ctx' = InitialState
    /\ node' = "classify_intent"
    /\ log' = EmptyLog
    /\ UNCHANGED chroma

\* classify_intent without its except clause: a raising generate call ends
\* the run.
ClassifyIntent_NoExcept ==
    /\ node = "classify_intent"
    /\ \E generated \in BOOLEAN, entities \in EntityLists :
         \E intent \in (IF env.provider /\ generated THEN Intents
                        ELSE FallbackIntents) :
            IF env.provider /\ ~generated
            THEN /\ node' = "raised"
                 /\ log' = Logged({"llm_classify"}, {"llm_classify"})
                 /\ UNCHANGED ctx
            ELSE /\ ctx' = [ctx EXCEPT !.intent = intent,
                                       !.entities = entities]
                 /\ log' = IF ~env.provider THEN log
                           ELSE Logged({"llm_classify"}, {})
                 /\ node' = "plan_search"
    /\ UNCHANGED <<env, chroma, runs>>

\* classify_intent: the tag parsed from the LLM answer, or the heuristic
\* fallback when there is no provider or generate raises.
ClassifyIntent ==
    /\ node = "classify_intent"
    /\ \E generated \in BOOLEAN, entities \in EntityLists :
         \E intent \in (IF env.provider /\ generated THEN Intents
                        ELSE FallbackIntents) :
            /\ ctx' = [ctx EXCEPT !.intent = intent, !.entities = entities]
            /\ log' = IF ~env.provider THEN log
                      ELSE Logged({"llm_classify"},
                                  IF generated THEN {} ELSE {"llm_classify"})
    /\ node' = "plan_search"
    /\ UNCHANGED <<env, chroma, runs>>

PlanSearch ==
    /\ node = "plan_search"
    /\ ctx' = IF ctx.intent = NoneStr
              THEN [ctx EXCEPT !.error = "No intent classified"]
              ELSE [ctx EXCEPT !.search_strategy =
                      PlannedStrategy(ctx.intent, ctx.entities,
                                      ctx.user_query)]
    /\ node' = "retrieve_from_graph"
    /\ UNCHANGED <<env, log, chroma, runs>>

RetrieveFromGraph ==
    /\ node = "retrieve_from_graph"
    /\ \E vout \in VectorHits \cup {EmbedRaises, QueryRaises},
          gout \in GraphRows \cup {GraphRaises} :
         LET r == Retrieved(ctx, vout, gout)
         IN  /\ ctx' = r.ctx
             /\ log' = [Logged(r.issued, r.failed) EXCEPT
                          !.hits = IF "vector" \in r.issued
                                      /\ "vector" \notin r.failed
                                   THEN vout ELSE <<>>]
             /\ node' = ShouldWebSearch(r.ctx)
    /\ UNCHANGED <<env, chroma, runs>>

WebSearch ==
    /\ node = "web_search"
    /\ LET has_results == \/ Truthy(ctx.kg_results)
                          \/ Truthy(ctx.vector_results)
       IN
       IF (has_results /\ ctx.intent # "expansion") \/ ~env.tavily_key
       THEN /\ ctx' = [ctx EXCEPT !.web_results = <<>>, !.web_query = NoneStr]
            /\ UNCHANGED <<log, chroma>>
       ELSE \E out \in WebResultLists \cup {WebRaises}, embedded \in BOOLEAN :
              IF out = WebRaises
              THEN /\ ctx' = [ctx EXCEPT !.web_results = <<>>,
                                         !.web_query = ctx.user_query]
                   /\ log' = Logged({"web"}, {"web"})
                   /\ UNCHANGED chroma
              ELSE LET p == PersistWebResults(out, embedded)
                   IN  /\ ctx' = [ctx EXCEPT !.web_results = out,
                                             !.web_query = ctx.user_query]
                       /\ log' = Logged({"web"} \cup p.issued, p.failed)
                       /\ chroma' = p.chroma
    /\ node' = "synthesize_answer"
    /\ UNCHANGED <<env, runs>>

SynthesizeAnswer ==
    /\ node = "synthesize_answer"
    /\ \E generated \in BOOLEAN :
         \E confidence \in CalculateConfidence(
                              ctx.kg_results, ctx.intent,
                              OrEmpty(ctx.vector_results),
                              OrEmpty(ctx.web_results), ctx.entities) :
            LET s == Synthesized(ctx, generated, confidence)
            IN  /\ ctx' = s.ctx
                /\ log' = Logged(s.issued, s.failed)
                /\ node' = IF s.raises THEN "raised" ELSE "END"
    /\ UNCHANGED <<env, chroma, runs>>

PipelineStep ==
    \/ ClassifyIntent
    \/ PlanSearch
    \/ RetrieveFromGraph
    \/ WebSearch
    \/ SynthesizeAnswer

\* ---------------------------------------------------- POST /query: steps
\* Each line of query_agent is one step of the thread that runs it.
At(r, pc) == req[r].pc = pc
Move(r, pc) == req' = [req EXCEPT ![r].pc = pc]
IsOverride(value) == value # NoneStr /\ value # "string"

QueryAgent(r, args) ==
    /\ At(r, "idle")
    /\ queries < MaxQueries
    /\ queries' = queries + 1
    /\ req' = [req EXCEPT ![r] = [NoRequest EXCEPT !.pc = "read_provider",
                                                   !.args = args]]
    /\ UNCHANGED settings

ReadOriginalProvider(r) ==
    /\ At(r, "read_provider")
    /\ req' = [req EXCEPT ![r].original_provider = settings.llm_provider,
                          ![r].pc = "read_model"]
    /\ UNCHANGED <<settings, queries>>

ReadOriginalModel(r) ==
    /\ At(r, "read_model")
    /\ req' = [req EXCEPT ![r].original_model = settings.llm_model,
                          ![r].pc = "set_provider"]
    /\ UNCHANGED <<settings, queries>>

OverrideProvider(r) ==
    /\ At(r, "set_provider")
    /\ IF IsOverride(req[r].args.llm_provider)
       THEN /\ settings' = [settings EXCEPT
                              !.llm_provider = req[r].args.llm_provider]
            /\ req' = [req EXCEPT ![r].overridden = TRUE,
                                  ![r].pc = "set_model"]
       ELSE /\ Move(r, "set_model")
            /\ UNCHANGED settings
    /\ UNCHANGED queries

OverrideModel(r) ==
    /\ At(r, "set_model")
    /\ IF IsOverride(req[r].args.llm_model)
       THEN /\ settings' = [settings EXCEPT
                              !.llm_model = req[r].args.llm_model]
            /\ req' = [req EXCEPT ![r].overridden = TRUE,
                                  ![r].pc = "classify"]
       ELSE /\ Move(r, "classify")
            /\ UNCHANGED settings
    /\ UNCHANGED queries

\* run_agent: get_provider reads the settings in classify_intent and again
\* in synthesize_answer.
RunReadsSettings(r) ==
    /\ req[r].pc \in {"classify", "synthesize"}
    /\ req' = [req EXCEPT ![r].seen = @ \cup {settings},
                          ![r].pc = IF req[r].pc = "classify"
                                    THEN "synthesize"
                                    ELSE "restore_provider"]
    /\ UNCHANGED <<settings, queries>>

\* run_agent raises: control passes to the finally clause.
RunRaises(r) ==
    /\ req[r].pc \in {"classify", "synthesize"}
    /\ Move(r, "restore_provider")
    /\ UNCHANGED <<settings, queries>>

RestoreProvider(r) ==
    /\ At(r, "restore_provider")
    /\ IF req[r].overridden
       THEN /\ settings' = [settings EXCEPT
                              !.llm_provider = req[r].original_provider]
            /\ Move(r, "restore_model")
       ELSE /\ Move(r, "idle")
            /\ UNCHANGED settings
    /\ UNCHANGED queries

RestoreModel(r) ==
    /\ At(r, "restore_model")
    /\ settings' = [settings EXCEPT !.llm_model = req[r].original_model]
    /\ Move(r, "idle")
    /\ UNCHANGED queries

\* ----------------------------------------------- failure patterns: calls
\* MATCH (fp:FailurePattern {id: $id}) SET fp.status = $status
UpdatePatternStatus(pattern_id, status) ==
    /\ patterns' = IF patterns[pattern_id] = "absent" THEN patterns
                   ELSE [patterns EXCEPT ![pattern_id] = status]
    /\ UNCHANGED month

\* _save_pattern of every pattern analyze() created: MERGE on the id, then
\* SET of every property, status ("detected") included. `buckets` are the
\* (agent, criterion) groups with at least min_samples failures.
Analyze(buckets) ==
    /\ patterns' =
         [id \in PatternIds |->
            IF \E b \in buckets : id = PatternId(b[1], b[2], month)
            THEN "detected" ELSE patterns[id]]
    /\ UNCHANGED month

\* POST /optimizer/patterns/{pattern_id}/approve (Gate 1).
ApproveHypotheses(pattern_id) ==
    /\ patterns[pattern_id] # "absent"
    /\ UpdatePatternStatus(pattern_id, "reviewing")

\* POST /optimizer/test, when the test run does not raise.
TestVariants(pattern_id) ==
    /\ patterns[pattern_id] # "absent"
    /\ UpdatePatternStatus(pattern_id, "addressing")

\* Rejecting a pattern at Gate 1, or activating a version at Gate 2.
Resolve(pattern_id) ==
    /\ patterns[pattern_id] # "absent"
    /\ UpdatePatternStatus(pattern_id, "resolved")

\* The calendar month changes.
NextMonth ==
    /\ month < MaxMonth
    /\ month' = month + 1
    /\ UNCHANGED patterns

\* ------------------------------------------------ optimizer HTTP flow: calls
\* _generate_with_llm: the first num_variants entries of the LLM's list, each
\* with the id f"var:{agent_name}:{counter:03d}"; the counter belongs to the
\* VariantGenerator instance and starts at 0.
GenerateWithLLM(agent_name, num_variants, outputs) ==
    [i \in 1..Min(Len(outputs), num_variants) |->
        [id |-> <<"var", agent_name, i>>, prompt_content |-> outputs[i]]]

\* generate_variants of a fresh VariantGenerator: nothing without a provider,
\* else what the LLM generates.  (The current prompt it loads first is never
\* missing for this agent: without registry content it is taken from the
\* agent's module.)
GenerateVariants(agent_name, num_variants, provider, outputs) ==
    IF ~provider THEN <<>>
    ELSE GenerateWithLLM(agent_name, num_variants, outputs)

\* _run_test_suite(test_queries, variant): run_agent(tq.query) for every
\* query; the synthesizer of that run formats SYNTHESIS_PROMPT.  The record
\* says for which variant the suite ran and which prompt the agent used.
RunTestSuite(variant_id) ==
    [variant_id |-> variant_id, prompt |-> SYNTHESIS_PROMPT]

\* results.sort(key=performance_delta, reverse=True): a stable sort.
SortByDelta(results) ==
    SelectSeq(results, LAMBDA r : r.performance_delta = Deltas[1])
    \o SelectSeq(results, LAMBDA r : r.performance_delta = Deltas[2])

\* run_tests(agent_name, variants): nothing without test queries; else the
\* baseline suite, one suite per variant, and the results ranked by delta.
\* `deltas` are the performance deltas the evaluations give, by position.
RunTests(variants, test_queries, deltas) ==
    IF test_queries = 0 THEN [suite |-> <<>>, results |-> <<>>]
    ELSE [suite |-> <<RunTestSuite(BaselineId)>>
                    \o [i \in 1..Len(variants) |-> RunTestSuite(variants[i].id)],
          results |-> SortByDelta(
                    [i \in 1..Len(variants) |->
                        [variant |-> variants[i],
                         performance_delta |-> deltas[i]]])]

\* The id of the pattern analyze() stores for the bucket this month.
FlowPattern == PatternId(FlowBucket[1], FlowBucket[2], month)

\* POST /optimizer/analyze finds the bucket of the flow and stores its
\* pattern; the flow starts over, with no response of Gate 1 or of the test
\* yet.
FlowAnalyze ==
    /\ flow \in {"idle", "tested"}
    /\ Analyze({FlowBucket})
    /\ flow' = "detected"
    /\ gate1' = NoGate1
    /\ variant_ids' = {}
    /\ test' = NoTest

\* POST /optimizer/patterns/{pattern_id}/approve with the approved
\* hypotheses: they are set on the in-memory pattern, the status becomes
\* "reviewing", three variants are generated and returned.
FlowApprove(pattern_id, hypotheses, provider, outputs) ==
    /\ flow = "detected"
    /\ ApproveHypotheses(pattern_id)
    /\ gate1' = [hypotheses |-> hypotheses,
                 variants |-> GenerateVariants(FlowAgent, NumVariants,
                                               provider, outputs)]
    /\ flow' = "approved"
    /\ UNCHANGED <<variant_ids, test>>

\* POST /optimizer/test naming some of the variants Gate 1 returned: the
\* pattern is read from the store again, variants are generated again from
\* it, run_tests runs them, the status becomes "addressing".
FlowTest(pattern_id, ids, provider, outputs, test_queries, deltas) ==
    /\ flow = "approved"
    /\ TestVariants(pattern_id)
    /\ variant_ids' = ids
    /\ LET variants == GenerateVariants(FlowAgent, NumVariants, provider,
                                        outputs)
           ran == RunTests(variants, test_queries, deltas)
       IN test' = [hypotheses |-> "stored", variants |-> variants,
                   suite |-> ran.suite, results |-> ran.results]
    /\ flow' = "tested"
    /\ UNCHANGED gate1

\* ------------------------------------------------ classify_intent: function
\* _build_intent_list: the names of the config, or the defaults without one.
BuildIntentList(config) ==
    IF config = NoneList THEN DefaultIntentList ELSE config

\* str.lower() on the tags of the model.
Lower(text) == IF text = "LOOKUP" THEN "lookup" ELSE text

\* Whether the regex alternative `name` matches, ignoring case, at the start
\* of `text`: name is a prefix of the text.
MatchesAt(name, text) ==
    \/ name = Lower(text)
    \/ name = "path" /\ Lower(text) = "path_trace"

\* _extract_intent: re.search(r"INTENT:\s*(a|b|...)", content, IGNORECASE)
\* takes the first alternative that matches; the matched text in lower case
\* (the intent names of the model are lower-case, so that is the name of the
\* alternative), or "lookup" without a match.
ExtractIntent(content, valid_intents) ==
    LET hits == { i \in DOMAIN valid_intents :
                    content.tag # NoneStr
                    /\ MatchesAt(valid_intents[i], content.tag) }
    IN  IF hits = {} THEN "lookup"
        ELSE valid_intents[CHOOSE i \in hits : \A j \in hits : i <= j]

\* _extract_entities: the names of the ENTITIES line.
ExtractEntities(content) == content.entities

\* _fallback_intent_classification: the keyword cascade.
FallbackIntentClassification(query) ==
    LET has(kw) == kw \in query.keywords IN
    IF has("weather") /\ ~has("agent") THEN "out_of_scope"
    ELSE IF has("vs") THEN "comparison"
    ELSE IF has("how many") THEN "aggregation"
    ELSE IF has("missing") THEN "coverage_check"
    ELSE IF has("schema") THEN "definition"
    ELSE IF has("implement") THEN "exploration"
    ELSE IF has("connect") THEN "path_trace"
    ELSE IF has("latest") THEN "expansion"
    ELSE "lookup"

\* _fallback_entity_extraction: the known names the query mentions.
FallbackEntityExtraction(query) == query.mentions

FallbackClassified(query) ==
    [state |-> "returned",
     intent |-> FallbackIntentClassification(query),
     entities |-> FallbackEntityExtraction(query)]

\* classify_intent(state): get_provider() is called before the try block, so
\* what it raises leaves the function; without a provider, or when anything
\* inside the try raises, the heuristic fallback; else the parsed LLM answer.
Classified(config, provider, content, query) ==
    IF provider = "construct_raises"
    THEN [state |-> "raised", intent |-> NoneStr, entities |-> NoneList]
    ELSE IF provider \in {"none", "generate_raises"}
    THEN FallbackClassified(query)
    ELSE [state |-> "returned",
          intent |-> ExtractIntent(content, BuildIntentList(config)),
          entities |-> ExtractEntities(content)]

\* One call of classify_intent on a fresh context.
ClassifyCall(config, provider, content, query) ==
    /\ cout.state = "idle"
    /\ cin' = [config |-> config, provider |-> provider,
               content |-> content, query |-> query]
    /\ cout' = Classified(config, provider, content, query)

\* ------------------------------------------------ composite score: function
\* A quotient num/den of the model's integers, kept with den > 0.
Ratio(num, den) ==
    IF den < 0 THEN [num |-> -num, den |-> -den] ELSE [num |-> num, den |-> den]

\* x >= y for two quotients.
Geq(x, y) == x.num * y.den >= y.num * x.den

RECURSIVE SumOver(_, _)
SumOver(f, keys) ==
    IF keys = {} THEN 0
    ELSE LET k == CHOOSE k \in keys : TRUE
         IN  f[k] + SumOver(f, keys \ {k})

\* calculate_composite_score(scores, criteria): 0.0 without scores or
\* criteria or with a total weight of 0, else weighted_sum / total_weight
\* over the criteria that have a score.
CalculateCompositeScore(scores, weight) ==
    LET present == DOMAIN scores \cap DOMAIN weight
        weighted_sum == SumOver([c \in present |-> scores[c] * weight[c]],
                                present)
        total_weight == SumOver([c \in present |-> weight[c]], present)
    IN  IF DOMAIN scores = {} \/ DOMAIN weight = {} THEN Ratio(0, 1)
        ELSE IF total_weight = 0 THEN Ratio(0, 1)
        ELSE Ratio(weighted_sum, total_weight)

\* Two evaluations scored on the same criteria `keys` of an agent whose
\* criteria file gives `weight`.
Evaluate(weight, keys, a, b) ==
    /\ scored.state = "idle"
    /\ scored' = [state |-> "scored", weight |-> weight, a |-> a, b |-> b,
                  composite_a |-> CalculateCompositeScore(a, weight),
                  composite_b |-> CalculateCompositeScore(b, weight)]

\* ------------------------------------------------------ analyze(): function
\* _query_low_scores: the evaluations with composite_score < threshold (the
\* stores of the model stay below the LIMIT of 100 rows).
QueryLowScores(evaluations, threshold) ==
    SelectSeq(evaluations, LAMBDA e : e.composite_score < threshold)

\* The scores that failed the threshold in a strict comparison with it;
\* variant with a non-strict comparison.
GroupFailures_Inclusive(low_scores, threshold) ==
    [key \in PatternAgents \X CriterionIds |->
        LET at == SelectSeq(low_scores,
                     LAMBDA e : e.agent_name = key[1]
                                /\ e.scores[key[2]] <= threshold)
        IN  [i \in DOMAIN at |-> at[i].scores[key[2]]]]

\* _group_failures: per (agent, criterion) key, the scores below threshold
\* among the fetched evaluations, in their order.
GroupFailures(low_scores, threshold) ==
    [key \in PatternAgents \X CriterionIds |->
        LET at == SelectSeq(low_scores,
                     LAMBDA e : e.agent_name = key[1]
                                /\ e.scores[key[2]] < threshold)
        IN  [i \in DOMAIN at |-> at[i].scores[key[2]]]]

RECURSIVE SumSeq(_)
SumSeq(s) == IF s = <<>> THEN 0 ELSE Head(s) + SumSeq(Tail(s))

\* _create_pattern: id, frequency = len(failures),
\* avg_score = sum(scores) / len(scores), status "detected".
CreatePattern(key, failures, date_str) ==
    [id |-> PatternId(key[1], key[2], date_str),
     agent_name |-> key[1], criterion_id |-> key[2],
     frequency |-> Len(failures),
     avg_score |-> Ratio(SumSeq(failures), Len(failures)),
     status |-> "detected"]

\* The keys analyze() creates a pattern for: the groups with at least
\* min_samples failures.
PatternKeys(evaluations, threshold, min_samples) ==
    LET grouped == GroupFailures(QueryLowScores(evaluations, threshold),
                                 threshold)
    IN  { key \in DOMAIN grouped : Len(grouped[key]) >= min_samples }

\* analyze() of a FailureAnalyzer(threshold, min_samples) over the stored
\* evaluations: the patterns it returns, each saved with _save_pattern.
AnalyzeCall(evaluations, threshold, min_samples) ==
    /\ analysis.state = "idle"
    /\ LET low_scores == QueryLowScores(evaluations, threshold)
           grouped == GroupFailures(low_scores, threshold)
           keys == PatternKeys(evaluations, threshold, min_samples)
       IN  /\ analysis' =
                [state |-> "analyzed", evaluations |-> evaluations,
                 threshold |-> threshold, min_samples |-> min_samples,
                 returned |-> { CreatePattern(key, grouped[key], month) :
                                key \in keys }]
           /\ Analyze(keys)

\* ------------------------------------------- _serialize_results: function
\* hasattr(value, "labels") and hasattr(value, "items"): a Node.
IsNode(value) == value.kind = "Node"
\* hasattr(value, "type") and hasattr(value, "items"): a Relationship (a
\* dict has items but no type; a Path and a DateTime have neither).
IsRelationship(value) == value.kind = "Relationship"

\* {"labels": list(value.labels), "properties": dict(value.items())}: the
\* property values are copied as they are.
NodeDict(value) ==
    Val("dict", <<Val("list", <<Prim>>), Val("dict", value.items)>>)
\* {"type": value.type, "properties": dict(value.items())}
RelationshipDict(value) ==
    Val("dict", <<Prim, Val("dict", value.items)>>)

\* _serialize_single_value: nodes and relationships become dicts, dicts and
\* lists are rebuilt from their serialized members, anything else is
\* returned as it is.
RECURSIVE SerializeSingleValue(_)
SerializeSingleValue(value) ==
    IF IsNode(value) THEN NodeDict(value)
    ELSE IF IsRelationship(value) THEN RelationshipDict(value)
    ELSE IF value.kind \in {"dict", "list"}
    THEN Val(value.kind,
             [i \in DOMAIN value.items |-> SerializeSingleValue(value.items[i])])
    ELSE value

\* _serialize_results: per record a dict of its columns; a node or
\* relationship column also gets its element id.
SerializeResults(results) ==
    [r \in DOMAIN results |->
        [col |->
           LET value == results[r].col IN
           IF IsNode(value) \/ IsRelationship(value)
           THEN Val("dict", SerializeSingleValue(value).items \o <<Prim>>)
           ELSE IF value.kind = "list"
           THEN Val("list", [i \in DOMAIN value.items |->
                                SerializeSingleValue(value.items[i])])
           ELSE SerializeSingleValue(value)]]

\* One call of _serialize_results on the rows a query returned.
SerializeCall(results) ==
    /\ serial.state = "idle"
    /\ serial' = [state |-> "serialized", results |-> results,
                  kg_results |-> SerializeResults(results)]

\* ------------------------------------------------------------ specifications
Statement(p) ==
  /\ UNCHANGED <<calls, outsideRegistry>>
  /\
    \/ CreateGetCurrent(p)
    \/ CreateWriteFile(p)
    \/ CreateMerge(p)
    \/ ActivateLookup(p)
    \/ ActivateDeactivate(p)
    \/ ActivateTarget(p)
    \/ UpdateCurrentRead(p)
    \/ UpdateCurrentOpen(p)
    \/ UpdateCurrentWrite(p)
    \/ RollbackEntry(p)
    \/ InitGetCurrent(p)

\* A statement runs, or raises.
Step(p) ==
    Statement(p) \/ (Raise(p) /\ UNCHANGED <<calls, outsideRegistry>>)

\* The calls a caller can issue: create_version and rollback for the agents
\* of `agents`, initialize_from_code for those of `inits`, activate_version
\* and rollback(to_version) for the ids of those agents and a missing id.
Call(p, agents, inits, drafts, explicitParent) ==
  /\ calls < MaxCalls
  /\ calls' = calls + 1
  /\ result' = "none"
  /\ UNCHANGED outsideRegistry
  /\
    \/ \E a \in agents, d \in drafts :
          \E par \in (IF explicitParent THEN ParentArgs(a) ELSE {None}) :
             CallCreateVersion(p, a, d.content, d.rationale, par)
    \/ \E id \in (inits \X Versions) \cup {MissingId}, by \in ApprovedBy :
          CallActivateVersion(p, id, by)
    \/ \E a \in agents, to \in (inits \X Versions) \cup {None, MissingId} :
          CallRollback(p, a, to)
    \/ \E a \in inits, d \in drafts : CallInitializeFromCode(p, a, d.content)

NoneRunning == \A q \in Procs : proc[q].pc = "idle"

\* Calls executed one at a time on one agent, with every input.
Next ==
    \E p \in SeqProcs :
       \/ NoneRunning /\ Call(p, MainAgent, MainAgent, Drafts, TRUE)
       \/ Step(p)

Spec == Init /\ [][Next]_vars

\* Calls executed one at a time on two agents.
NextAgents ==
    \E p \in SeqProcs :
       \/ NoneRunning /\ Call(p, MainAgent, Agents, OneDraft, FALSE)
       \/ Step(p)

SpecAgents == Init /\ [][NextAgents]_vars

\* Two callers whose statements interleave; no statement raises.
NextConc ==
    \E p \in Procs :
       \/ Call(p, MainAgent, MainAgent, OneDraft, FALSE)
       \/ Statement(p)

SpecConc == Init /\ [][NextConc]_vars

\* Pipeline runs, one after the other, over one vector store.
NextPipeline ==
    \/ RunAgent /\ UNCHANGED outsidePipeline
    \/ ClassifyIntent /\ UNCHANGED outsidePipeline
    \/ PlanSearch /\ UNCHANGED outsidePipeline
    \/ RetrieveFromGraph /\ UNCHANGED outsidePipeline
    \/ WebSearch /\ UNCHANGED outsidePipeline
    \/ SynthesizeAnswer /\ UNCHANGED outsidePipeline

SpecPipeline == Init /\ [][NextPipeline]_vars

\* A started run is carried on until it ends: graph.invoke runs the nodes
\* one after the other without waiting for anything but their return.
FairPipeline == SpecPipeline /\ WF_vars(PipelineStep /\ UNCHANGED outsidePipeline)

\* /query requests handled by two threads of the server.
NextQuery ==
    \E r \in Requests :
       \/ \E args \in QueryArgs : QueryAgent(r, args) /\ UNCHANGED outsideQuery
       \/ ReadOriginalProvider(r) /\ UNCHANGED outsideQuery
       \/ ReadOriginalModel(r) /\ UNCHANGED outsideQuery
       \/ OverrideProvider(r) /\ UNCHANGED outsideQuery
       \/ OverrideModel(r) /\ UNCHANGED outsideQuery
       \/ RunReadsSettings(r) /\ UNCHANGED outsideQuery
       \/ RunRaises(r) /\ UNCHANGED outsideQuery
       \/ RestoreProvider(r) /\ UNCHANGED outsideQuery
       \/ RestoreModel(r) /\ UNCHANGED outsideQuery

SpecQuery == Init /\ [][NextQuery]_vars

\* The optimizer's calls on failure patterns, over the months.
NextPatterns ==
    \/ \E buckets \in SUBSET (PatternAgents \X CriterionIds) :
          Analyze(buckets) /\ UNCHANGED outsidePatterns
    \/ \E id \in PatternIds : ApproveHypotheses(id) /\ UNCHANGED outsidePatterns
    \/ \E id \in PatternIds : TestVariants(id) /\ UNCHANGED outsidePatterns
    \/ \E id \in PatternIds : Resolve(id) /\ UNCHANGED outsidePatterns
    \/ \E id \in PatternIds, k \in 1..Len(Statuses) :
          UpdatePatternStatus(id, Statuses[k]) /\ UNCHANGED outsidePatterns
    \/ NextMonth /\ UNCHANGED outsidePatterns

SpecPatterns == Init /\ [][NextPatterns]_vars

\* The HTTP optimizer flow for one failure pattern: analyze, Gate 1, test.
NextOptimizer ==
    \/ FlowAnalyze /\ UNCHANGED outsideFlow
    \/ \E h \in Hypotheses, provider \in BOOLEAN, outputs \in LLMOutputs :
          FlowApprove(FlowPattern, h, provider, outputs)
          /\ UNCHANGED outsideFlow
    \/ \E provider \in BOOLEAN, outputs \in LLMOutputs,
          test_queries \in TestQueryCounts :
          \E ids \in SUBSET { gate1.variants[i].id :
                              i \in DOMAIN gate1.variants },
             deltas \in [1..Min(Len(outputs), NumVariants) ->
                           {Deltas[1], Deltas[2]}] :
             FlowTest(FlowPattern, ids, provider, outputs, test_queries,
                      deltas)
             /\ UNCHANGED outsideFlow

SpecOptimizer == Init /\ [][NextOptimizer]_vars

\* classify_intent applied to every input of the model.
NextClassifier ==
    \E config \in IntentConfigs, provider \in ProviderStates,
       content \in LLMContents, query \in ClassifierQueries :
       ClassifyCall(config, provider, content, query)
       /\ UNCHANGED outsideClassifier

SpecClassifier == Init /\ [][NextClassifier]_vars

\* calculate_composite_score applied to pairs of evaluations.
NextScorer ==
    \E weight \in [Criteria -> Weights], keys \in SUBSET Criteria :
       \E a \in [keys -> Scores], b \in [keys -> Scores] :
          Evaluate(weight, keys, a, b) /\ UNCHANGED outsideScorer

SpecScorer == Init /\ [][NextScorer]_vars

\* analyze() applied to every evaluation store of the model.
NextAnalyzer ==
    \E evaluations \in EvalStores, threshold \in Thresholds,
       min_samples \in MinSamples :
       AnalyzeCall(evaluations, threshold, min_samples)
       /\ UNCHANGED outsideAnalyzer

SpecAnalyzer == Init /\ [][NextAnalyzer]_vars

\* _serialize_results applied to every result of the model.
NextSerializer ==
    \E results \in RawResults :
       SerializeCall(results) /\ UNCHANGED outsideSerializer

SpecSerializer == Init /\ [][NextSerializer]_vars

\* ================================================================== claims
VersionsOf(agent) ==
    { id \in Ids : store[id] # NoRec /\ store[id].agent_name = agent }

\* C1: with calls executed one at a time, every agent has at most one
\* PromptVersion record with is_active = true, in every state.
C1_SingleActive ==
    \A a \in Agents : Cardinality(ActiveOf(a)) <= 1

\* An activation has replaced an earlier active version of the same agent.
C1_Witness ==
    \E id1 \in Ids, id2 \in Ids :
       /\ id1 # id2
       /\ Exists(id1) /\ Exists(id2)
       /\ store[id1].agent_name = store[id2].agent_name
       /\ store[id1].is_active
       /\ ~store[id2].is_active /\ store[id2].approved_by # "null"
       /\ NoneRunning

\* C2: while two activate_version calls for two different versions of one
\* agent are both under way, the agent never has two active versions.
C2_ConcurrentActivations ==
    ( /\ proc[1].op = "activate_version" /\ proc[2].op = "activate_version"
      /\ proc[1].vid # proc[2].vid
      /\ Exists(proc[1].vid) /\ Exists(proc[2].vid)
      /\ store[proc[1].vid].agent_name = store[proc[2].vid].agent_name )
    => Cardinality(ActiveOf(store[proc[1].vid].agent_name)) <= 1

\* C3: deactivation and activation are one atomic step: an agent that has had
\* an active version (some record carries an approved_by) is never observed
\* with no active version.
C3_AtomicSwitch ==
    \A a \in Agents :
       (\E id \in VersionsOf(a) : store[id].approved_by # "null")
       => ActiveOf(a) # {}

\* C4: create_version writes its record under an id that no existing record
\* has, and no step changes the prompt_content, prompt_hash, parent_version,
\* rationale or version file of an existing version.
C4_Immutable ==
    [][ /\ \A p \in Procs : CreateMerge(p) => ~Exists(proc[p].vid)
        /\ \A id \in Ids :
             Exists(id) =>
               /\ store'[id].prompt_content = store[id].prompt_content
               /\ store'[id].prompt_hash = store[id].prompt_hash
               /\ store'[id].parent_version = store[id].parent_version
               /\ store'[id].rationale = store[id].rationale
               /\ vfile'[id] = vfile[id] ]_vars

\* C5: every active version is user_approved with a non-null approved_by.
C5_ActiveIsApproved ==
    \A id \in Ids :
       (Exists(id) /\ store[id].is_active)
       => (store[id].user_approved /\ store[id].approved_by # "null")

\* C5: active versions are approved; a version becomes active only in the
\* activating statement of activate_version; create_version leaves its
\* record inactive and unapproved.
C5_Approval ==
    /\ []C5_ActiveIsApproved
    /\ [][ \A id \in Ids :
             ( /\ ~(Exists(id) /\ store[id].is_active)
               /\ store'[id] # NoRec /\ store'[id].is_active )
             => \E p \in Procs : proc[p].vid = id /\ ActivateTarget(p) ]_vars
    /\ [][ \A p \in Procs :
             CreateMerge(p)
             => /\ ~store'[proc[p].vid].is_active
                /\ ~store'[proc[p].vid].user_approved ]_vars

\* A version created unapproved has been activated by a caller.
C5_Witness ==
    \E id \in Ids :
       /\ Exists(id) /\ store[id].is_active
       /\ store[id].approved_by = "user"
       /\ store[id].version # <<1, 0, 0>>
       /\ NoneRunning

\* C6: when activate_version(v) returns True, load_prompt of v's agent
\* returns exactly the prompt_content v was created with.
C6_LoadAfterActivate ==
    [][ \A p \in Procs : \A a \in Agents : \A id \in Ids :
          (a = proc[p].aname /\ id = proc[p].vid /\ UpdateCurrentWrite(p))
          => LoadPrompt(a)' = {createdWith'[id]} ]_vars

\* C7: in every state in which an agent has an active version, current.txt
\* exists and holds exactly that version's prompt_content.
C7_CurrentReflectsActive ==
    \A a \in Agents : \A id \in ActiveOf(a) :
       current[a] # NoFile /\ current[a] = store[id].prompt_content

\* C8: no agent has two distinct version records with the same prompt_hash.
C8_UniqueHash ==
    \A id1 \in Ids, id2 \in Ids :
       ( /\ id1 # id2 /\ Exists(id1) /\ Exists(id2)
         /\ store[id1].agent_name = store[id2].agent_name )
       => store[id1].prompt_hash # store[id2].prompt_hash

\* Following parent_version links from `from`, at most n steps, reaches
\* `target`.
RECURSIVE ReachesByParents(_, _, _)
ReachesByParents(from, target, n) ==
    IF n = 0 \/ ~Exists(from) THEN FALSE
    ELSE \/ store[from].parent_version = target
         \/ ReachesByParents(store[from].parent_version, target, n - 1)

\* C9: every version other than the initial 1.0.0 has a parent_version that
\* names an existing version of the same agent, and following parent links
\* from a version never returns to it.
C9_ParentChain ==
    \A id \in Ids :
       Exists(id) =>
         /\ store[id].version # <<1, 0, 0>> =>
              /\ Exists(store[id].parent_version)
              /\ store[store[id].parent_version].agent_name
                   = store[id].agent_name
         /\ ~ReachesByParents(id, id, Cardinality(Ids))

\* C10: an initialize_from_code call issued when the agent already has a
\* version record, active or not, changes no version record, no version file
\* and no current.txt.
C10_InitIsNoOp ==
    [][ \A p \in Procs :
          (proc[p].op = "initialize_from_code" /\ proc[p].had_version)
          => UNCHANGED <<store, vfile, current>> ]_vars

\* The fields of the version records that an activation writes.
ActivationFields(st) ==
    [id \in Ids |->
        IF st[id] = NoRec THEN NoRec
        ELSE [is_active |-> st[id].is_active,
              user_approved |-> st[id].user_approved,
              approved_by |-> st[id].approved_by]]

\* rollback(agent) without a target has nothing to roll back to.
NoRollbackTarget(agent) ==
    \A cur \in CurrentChoices(agent) :
       cur = None \/ store[cur].parent_version = None

\* C11: activate_version with an id that matches no version, and
\* rollback(agent) without a target when the agent has no active version or
\* the active version has no parent, return False and leave is_active,
\* user_approved and approved_by of every record and every current.txt as
\* they were; a call returns False only before its first write.
C11_FailedCallMutatesNothing ==
    [][ \A p \in Procs :
          /\ ( \/ ActivateLookup(p) /\ ~Exists(proc[p].vid)
               \/ /\ RollbackEntry(p) /\ proc[p].vid = None
                  /\ NoRollbackTarget(proc[p].agent) )
             => /\ result' = "False"
                /\ proc'[p].pc = "idle"
                /\ ActivationFields(store') = ActivationFields(store)
                /\ current' = current
          /\ (proc[p].pc # "idle" /\ proc'[p].pc = "idle" /\ result' = "False")
             => proc[p].pc \in {"av_lookup", "rb_entry"} ]_vars

\* A call has returned False while the agent has an active version.
C11_Witness ==
    /\ result = "False"
    /\ NoneRunning
    /\ \E a \in Agents : ActiveOf(a) # {}

\* C12: a pipeline run whose intent resolves to out_of_scope issues no graph
\* query, no vector-store query and no web-search call, whatever the vector
\* store holds and whether or not a web-search key is set, and it ends with
\* the fixed deflection answer and confidence 0.
C12_OutOfScopePurity ==
    ctx.intent = "out_of_scope" =>
        /\ log.issued \cap {"graph", "vector", "web"} = {}
        /\ node = "END" =>
              ctx.answer = DeflectionAnswer /\ ctx.confidence = 0

\* C13: the status of a failure pattern only moves forward in the order
\* detected, reviewing, addressing, resolved: no analyze run, Gate-1
\* approval, test run, resolution or update_pattern_status call takes a
\* pattern back to an earlier status, and a resolved pattern is not
\* re-opened by an analyze run that finds the same failures again.
C13_StatusMonotone ==
    [][ \A id \in PatternIds : Rank(patterns'[id]) >= Rank(patterns[id]) ]_vars

C15_PlannerRetrievalType ==
    node = "retrieve_from_graph" =>
        LET strategy == ctx.search_strategy
            has_template == strategy.cypher_template # NoneStr
        IN  /\ ctx.intent = "out_of_scope" => strategy.retrieval_type = "none"
            /\ ctx.intent # "out_of_scope" /\ IsAvailable =>
                 strategy.retrieval_type =
                    IF ctx.intent = "expansion" \/ ~has_template
                    THEN "vector_first"
                    ELSE IF ctx.intent \in {"lookup", "exploration", "path",
                                            "path_trace"}
                    THEN "hybrid"
                    ELSE "graph_only"
            /\ ctx.intent \notin {"out_of_scope", "expansion"} /\ ~IsAvailable
                 => strategy.retrieval_type \notin {"vector_first", "hybrid"}

\* C16: the web-search collaborator is called only if, after retrieval,
\* intent is expansion or both kg_results and vector_results are empty; in
\* every other case the run goes from retrieval straight to synthesis, makes
\* no web call and writes nothing to the vector store.
WebEnabled(c) ==
    \/ c.intent = "expansion"
    \/ ~Truthy(c.kg_results) /\ ~Truthy(c.vector_results)

C16_WebOnlyWhenEnabled ==
    /\ [](("web" \in log.issued \/ "upsert" \in log.issued) => WebEnabled(ctx))
    /\ [][ node = "retrieve_from_graph" /\ ~WebEnabled(ctx')
             => node' = "synthesize_answer" ]_vars
    /\ [][ node \notin {"idle", "END"} /\ ~WebEnabled(ctx')
             => chroma' = chroma /\ "web" \notin log'.issued ]_vars

C16_Witness ==
    /\ node = "END"
    /\ ~WebEnabled(ctx)
    /\ env.tavily_key /\ env.embedder
    /\ "web" \notin log.issued

\* C17: if the graph collaborator or the vector collaborator (embedding
\* call, vector-store query, enrichment query) raises during
\* retrieve_from_graph, the stage does not raise: it records a non-empty
\* error string on the context, leaves the result lists empty, and the
\* pipeline goes on to the next stage.
C17_RetrievalFailureRecorded ==
    [][ /\ node = "retrieve_from_graph"
        /\ (log'.failed \ log.failed)
              \cap {"graph", "enrich", "embed", "vector"} # {}
        => /\ node' \in {"web_search", "synthesize_answer"}
           /\ ctx'.error # NoneStr
           /\ ~Truthy(ctx'.kg_results)
           /\ ~Truthy(ctx'.vector_results) ]_vars

\* C18: when intent is not out_of_scope and the graph, vector and web result
\* lists are all empty at synthesis, the synthesizer returns the fixed
\* not-found message with confidence 0.1 if no error is set, and echoes the
\* error with confidence 0 if one is set; in both cases the sources are
\* empty and the LLM is not called.
NoEvidence(c) ==
    /\ ~Truthy(c.kg_results)
    /\ ~Truthy(c.vector_results)
    /\ ~Truthy(c.web_results)

C18_NoEvidenceAnswer ==
    [][ /\ node = "synthesize_answer"
        /\ ctx.intent # "out_of_scope"
        /\ NoEvidence(ctx)
        => /\ node' = "END"
           /\ ctx'.answer = IF ctx.error = NoneStr THEN NotFoundAnswer
                            ELSE ErrorEcho(ctx.error)
           /\ ctx'.confidence = IF ctx.error = NoneStr THEN 10 ELSE 0
           /\ ctx'.sources = <<>>
           /\ "llm_synthesize" \notin log'.issued ]_vars

C18_Witness ==
    /\ node = "END"
    /\ ctx.intent # "out_of_scope"
    /\ NoEvidence(ctx)
    /\ env.provider
    /\ ctx.error # NoneStr
    /\ ctx.answer = ErrorEcho(ctx.error)
    /\ ctx.confidence = 0

\* C19: persisting web results is idempotent per URL: after any sequence of
\* web-expander runs the vector store holds at most one web_search entry for
\* each URL; a URL returned again, at any position of a later result list,
\* overwrites its entry instead of adding one.
C19_OneEntryPerUrl ==
    \A e1, e2 \in chroma : e1.source_url = e2.source_url => e1 = e2

\* C20: a provider/model override sent with a /query request is scoped to
\* that request: in every interleaving of concurrent requests, the pipeline
\* run of a request reads its own override or else the process-wide value,
\* never the override of another request, and once all requests have
\* finished (normally or by exception) the process-wide settings hold the
\* values they had before the requests.
OwnSettings(args) ==
    [llm_provider |-> IF IsOverride(args.llm_provider) THEN args.llm_provider
                      ELSE DefaultSettings.llm_provider,
     llm_model |-> IF IsOverride(args.llm_model) THEN args.llm_model
                   ELSE DefaultSettings.llm_model]

C20_OverrideScoped ==
    /\ \A r \in Requests : req[r].seen \subseteq {OwnSettings(req[r].args)}
    /\ (\A r \in Requests : req[r].pc = "idle") => settings = DefaultSettings

\* C21: every test suite that run_tests ran for a variant had the agent use
\* that variant's prompt_content, and the test run changes neither the
\* version records, nor the version files, nor current.txt of the registry.
C21_VariantPromptUsed ==
    /\ [](\A i \in DOMAIN test.suite :
            test.suite[i].variant_id # BaselineId =>
              \E k \in DOMAIN test.variants :
                 /\ test.variants[k].id = test.suite[i].variant_id
                 /\ test.suite[i].prompt = test.variants[k].prompt_content)
    /\ [][flow' = "tested" => UNCHANGED <<store, vfile, current>>]_vars

\* C30: when POST /optimizer/test has returned, the variants it ran and
\* ranked are exactly the variants of the Gate 1 response that the request's
\* variant_ids name, with the prompt contents Gate 1 returned; they were
\* generated from the hypotheses approved at Gate 1; and every variant the
\* test generated is one Gate 1 had returned.
C30_TestsGate1Variants ==
    flow = "tested" =>
      /\ { test.results[i].variant : i \in DOMAIN test.results }
           = { gate1.variants[k] :
               k \in { j \in DOMAIN gate1.variants :
                         gate1.variants[j].id \in variant_ids } }
      /\ test.hypotheses = gate1.hypotheses
      /\ \A k \in DOMAIN test.variants :
            \E j \in DOMAIN gate1.variants :
               test.variants[k] = gate1.variants[j]

\* The intent set in force: the configured names, or the defaults.
InForce(config) ==
    { BuildIntentList(config)[i] : i \in DOMAIN BuildIntentList(config) }

\* C22: whenever classify_intent has returned, the intent it wrote is a
\* member of the intent set in force for that call, whether it came from a
\* parsed LLM answer, from the default after a failed parse, or from the
\* keyword fallback.
C22_IntentInForce ==
    cout.state = "returned" => cout.intent \in InForce(cin.config)

\* C23: classify_intent never raises, and when the provider cannot be
\* constructed or its generate call raises, the call ends with the intent
\* and the entities of the heuristic fallback written.
C23_ClassifyNeverRaises ==
    /\ cout.state # "raised"
    /\ cout.state = "returned"
       /\ cin.provider \in {"construct_raises", "generate_raises"}
       => cout = FallbackClassified(cin.query)

\* C25: for two evaluations of one agent scored on the same criteria, if
\* every criterion score of A is at least the corresponding score of B then
\* the composite of A is at least the composite of B, whatever weights the
\* criteria file gives.
C25_CompositeMonotone ==
    scored.state = "scored"
    /\ (\A c \in DOMAIN scored.a : scored.a[c] >= scored.b[c])
    => Geq(scored.composite_a, scored.composite_b)

\* Number of fetched evaluations (composite below threshold) of the agent
\* whose score for the criterion is below threshold.
BucketSize(a, agent_name, criterion_id) ==
    Cardinality({ i \in DOMAIN a.evaluations :
                    /\ a.evaluations[i].composite_score < a.threshold
                    /\ a.evaluations[i].agent_name = agent_name
                    /\ a.evaluations[i].scores[criterion_id] < a.threshold })

C26_ConfidenceBounds ==
    ctx.confidence # NoneNum => ctx.confidence \in 0..100

\* A run that ended with an LLM answer at the highest confidence a run can
\* get: entity match, intent fulfilment and completeness score 1.0 and the
\* vector similarity is the neutral 0.5 of a context without vector hits.
C26_Witness ==
    /\ node = "END"
    /\ ctx.answer = LLMAnswer
    /\ ctx.confidence = 90

\* A value is plain when it is a primitive, or a dict or list whose members
\* are plain.
RECURSIVE IsPlain(_)
IsPlain(value) ==
    \/ value.kind = "prim"
    \/ /\ value.kind \in {"dict", "list"}
       /\ \A i \in DOMAIN value.items : IsPlain(value.items[i])

\* C27: every column of every record of the kg_results that
\* _serialize_results returned is a plain dict, list or primitive at every
\* nesting depth: no Node, Relationship, Path or other driver object is left.
C27_SerializedIsPlain ==
    serial.state = "serialized" =>
      \A r \in DOMAIN serial.kg_results : IsPlain(serial.kg_results[r].col)

\* C28: when retrieve_from_graph runs with retrieval_type vector_first or
\* hybrid, a non-empty vector query and an embedding client, and the vector
\* store returns n hits (1 <= n <= 5), the vector_results it leaves on the
\* context are exactly those n hits, in their order.
C28_VectorHitsStored ==
    [][ /\ node = "retrieve_from_graph"
        /\ ctx.search_strategy # NoRec
        /\ ctx.search_strategy.retrieval_type \in {"vector_first", "hybrid"}
        /\ ctx.search_strategy.vector_query \notin {"", NoneStr}
        /\ env.embedder
        /\ Len(log'.hits) \in 1..TopK
        => /\ ctx'.vector_results # NoneList
           /\ Len(ctx'.vector_results) = Len(log'.hits)
           /\ \A i \in DOMAIN log'.hits :
                 \A k \in {"node_id", "node_label", "text", "score"} :
                    ctx'.vector_results[i][k] = log'.hits[i][k] ]_vars

\* C29: rollback(agent_name, to_version) affects only agent_name: whatever
\* to_version is, the id of a version of another agent included, no step of
\* the call changes is_active on a version of an agent other than agent_name
\* or changes another agent's current.txt.
C29_RollbackFrame ==
    [][ \A p \in Procs :
          proc[p].op = "rollback" =>
             \A a \in Agents \ {proc[p].agent} :
                /\ current'[a] = current[a]
                /\ \A id \in VersionsOf(a) :
                      /\ Exists(id)'
                      /\ store'[id].is_active = store[id].is_active ]_vars

====
